---- MODULE Spec2Model ----
(***************************************************************************)
(* Indicator aggregation and cache of the "API Economica" service.         *)
(*                                                                         *)
(*   src/services/api_services.py  APIServices.get_all_indicators          *)
(*   src/main.py                   update_indicators_from_apis,            *)
(*                                 get_cached_indicators, force_update,    *)
(*                                 startup_event                           *)
(*   src/init-db.py                init_db (the seed of the store)         *)
(*   src/services/api_services.py  the 14 fetchers, _fetch_bcb_series       *)
(*   src/auth.py                   the sessions                            *)
(*   src/main.py                   login, logout, salvar_analise,          *)
(*                                 get_indicador_by_name, get_status,      *)
(*                                 home, detalhe_indicador,                *)
(*                                 get_indicador_slug                      *)
(*                                                                         *)
(* The handlers are asyncio coroutines: every await is a point where the   *)
(* event loop may run another coroutine, so each handler is cut into one   *)
(* action per stretch of code between two awaits.                          *)
(***************************************************************************)
EXTENDS Integers, Sequences, FiniteSets, TLC

(***************************************************************************)
(* Bounds of the model.                                                    *)
(***************************************************************************)
\* How many of the 14 declared fetchers (a prefix of the task list) the model runs.
NumFetchers == 4
\* How many request or background coroutines may be in flight at once.
NumTasks == 2
\* How many times the clock advances in one behaviour.
MaxTicks == 2
\* How many distinct values secrets.token_urlsafe draws from.
NumTokens == 2
\* How many times the clock advances in one behaviour of the session handlers.
MaxAuthTicks == 2
\* How many periods the provider of a historical series may hold.
MaxAvailable == 13

(***************************************************************************)
(* Program constants.                                                      *)
(***************************************************************************)
CACHE_DURATION == 3600
\* timedelta.seconds is the seconds part of a duration: 0 .. 86399.
SecondsPerDay == 86400
\* cache_timestamp = None
NoTimestamp == -1
\* timedelta(hours=8), in seconds
SessionSeconds == 28800
\* session_token: Optional[str] = Cookie(None): the request carries no cookie
NoToken == 0
\* cache_age = None
NoAge == -1

Tasks == 1..NumTasks
\* The coroutine that runs startup_event: the first one.
StartupTask == CHOOSE t \in Tasks : \A u \in Tasks : t <= u
Slots == 1..NumFetchers

\* The names the fetchers give their records, in the order of the task list.
FetcherNome ==
  << "Taxa Selic", "Inflacao (IPCA)", "IGP-M", "Dolar (USD/BRL)", "PIB",
     "Taxa de Desemprego", "Rendimento Medio Real", "Balanca Comercial",
     "Ibovespa", "Volume de Credito", "Taxa de Inadimplencia",
     "Producao Industrial", "Vendas no Varejo", "Confianca do Consumidor" >>

\* The "fonte" of each fetcher's failure record.
FetcherFonteErro ==
  << "BCB", "IBGE", "FGV", "BCB", "BCB/IBGE", "IBGE", "IBGE", "BCB", "B3",
     "BCB", "BCB", "IBGE", "IBGE", "FGV" >>

\* f"Indicador {i}" for the 0-based position i of a task that raised.
PlaceholderNome ==
  << "Indicador 0", "Indicador 1", "Indicador 2", "Indicador 3", "Indicador 4",
     "Indicador 5", "Indicador 6", "Indicador 7", "Indicador 8", "Indicador 9",
     "Indicador 10", "Indicador 11", "Indicador 12", "Indicador 13" >>

(***************************************************************************)
(* What one fetcher coroutine hands to gather:                             *)
(*   "ok"   the record of a parsed, validated value                        *)
(*   "fail" the fetcher's own failure record (its final return)            *)
(*   "exc"  an Exception that left the fetcher                             *)
(***************************************************************************)
Outcomes == {"ok", "fail", "exc"}

\* The record a fetcher returns on its validated path.
ValidatedRecord(i) ==
  [nome |-> FetcherNome[i], valor |-> "valor formatado",
   descricao |-> "descricao com periodo", fonte |-> "fonte oficial",
   validado |-> TRUE]

\* The record a fetcher returns when it got nothing it could validate.
FailureRecord(i) ==
  [nome |-> FetcherNome[i], valor |-> "N/D",
   descricao |-> "Erro ao obter dados", fonte |-> FetcherFonteErro[i],
   validado |-> FALSE]

\* The record get_all_indicators substitutes for a task that raised.
ExceptionRecord(i) ==
  [nome |-> PlaceholderNome[i], valor |-> "N/D",
   descricao |-> "Excecao: mensagem", fonte |-> "N/D", validado |-> FALSE]

\* gather handing the results over in the order the tasks settled in.
gather_in_completion_order(settled, order) == [k \in Slots |-> settled[order[k]]]

\* asyncio.gather(*tasks, return_exceptions=True): one result per task, in the
\* order of the task list, whatever the order the tasks settled in.
gather(settled, order) == [i \in Slots |-> settled[i]]

\* The loop skipping the tasks that raised instead of substituting a record.
ResultsDroppingExceptions(results) ==
  LET kept == SelectSeq([i \in Slots |-> i], LAMBDA i : results[i] # "exc")
  IN [k \in 1..Len(kept) |->
        IF results[kept[k]] = "ok" THEN ValidatedRecord(kept[k])
                                   ELSE FailureRecord(kept[k])]

\* The loop over enumerate(results).
ResultsToIndicators(results) ==
  [i \in Slots |->
     CASE results[i] = "exc" -> ExceptionRecord(i)
       [] results[i] = "ok" -> ValidatedRecord(i)
       [] OTHER -> FailureRecord(i)]

\* get_all_indicators: the list built from the results, or [] when an exception
\* is raised inside its try block.
get_all_indicators(results, raised) ==
  IF raised THEN << >> ELSE ResultsToIndicators(results)

IdentityOrder == [i \in Slots |-> i]

(***************************************************************************)
(* The store (table "indicadores").                                        *)
(***************************************************************************)
SeedRow(i, n, v, d) == [id |-> i, nome |-> n, valor |-> v, descricao |-> d]

\* init_db: the rows inserted into an empty table.
SeedRows ==
  << SeedRow(1, "PIB", "R$ 8,7 trilhoes", "Crescimento de 1,2% no ultimo trimestre"),
     SeedRow(2, "Inflacao (IPCA)", "4,2%", "Inflacao anual medida pelo IPCA"),
     SeedRow(3, "Taxa Selic", "13,25%", "Taxa basica de juros da economia"),
     SeedRow(4, "Dolar (USD/BRL)", "R$ 5,25", "Cotacao atual do dolar em relacao ao real"),
     SeedRow(5, "Taxa de Desemprego", "8,5%", "Percentual da forca de trabalho desocupada"),
     SeedRow(6, "Geracao de Empregos Formais", "+45.000", "Saldo de empregos com carteira assinada"),
     SeedRow(7, "Rendimento Medio Real", "R$ 2.750", "Salario medio da populacao ajustado pela inflacao"),
     SeedRow(8, "Balanca Comercial", "Superavit de US$ 2,1 bi", "Exportacoes > Importacoes"),
     SeedRow(9, "Corrente de Comercio", "US$ 90 bi", "Soma das exportacoes e importacoes"),
     SeedRow(10, "Ibovespa", "124.500 pts", "Principal indice da bolsa brasileira"),
     SeedRow(11, "Volume de Credito", "R$ 3,2 trilhoes", "Total de emprestimos concedidos"),
     SeedRow(12, "Taxa de Inadimplencia", "3,8%", "Percentual de emprestimos em atraso"),
     SeedRow(13, "Indice de Confianca do Consumidor", "78,5 pts", "Medida do otimismo do consumidor"),
     SeedRow(14, "Producao Industrial", "0,6%", "Variacao mensal da producao industrial"),
     SeedRow(15, "Vendas no Varejo", "1,1%", "Variacao mensal das vendas no comercio") >>

\* The inserts with no DELETE before them: the seeded rows beyond the new ones stay.
InsertOverSeed(indicators) ==
  [i \in 1..(IF Len(indicators) > Len(SeedRows) THEN Len(indicators) ELSE Len(SeedRows)) |->
     IF i <= Len(indicators)
       THEN [id |-> i, nome |-> indicators[i].nome, valor |-> indicators[i].valor,
             descricao |-> indicators[i].descricao]
       ELSE SeedRows[i]]

\* DELETE FROM indicadores, then one IndicadorDB(id=i, ...) per indicator, i from 1.
ReplaceAll(indicators) ==
  [i \in 1..Len(indicators) |->
     [id |-> i, nome |-> indicators[i].nome, valor |-> indicators[i].valor,
      descricao |-> indicators[i].descricao]]

\* The row handed out as it is stored, id included.
RowWithId(row) == row

\* {"nome": i.nome, "valor": i.valor, "descricao": i.descricao}
RowToDict(row) ==
  [nome |-> row.nome, valor |-> row.valor, descricao |-> row.descricao]

\* select(IndicadorDB) ... scalars().all(), each row as a dict.
SelectAll(rows) == [i \in 1..Len(rows) |-> RowToDict(rows[i])]

(***************************************************************************)
(* The staleness test of get_cached_indicators.                            *)
(***************************************************************************)
\* (now - cache_timestamp).seconds
TimedeltaSeconds(d) == d % SecondsPerDay

\* The staleness test with >= in place of >.
CacheExpiredAtTTL(n, ts) ==
  \/ ts = NoTimestamp
  \/ TimedeltaSeconds(n - ts) >= CACHE_DURATION

\* not cache_timestamp or (now - cache_timestamp).seconds > CACHE_DURATION
CacheExpired(n, ts) ==
  \/ ts = NoTimestamp
  \/ TimedeltaSeconds(n - ts) > CACHE_DURATION

\* GET /api/status: "cache_age = None; if cache_timestamp: cache_age = (now -
\* cache_timestamp).seconds", then the conditional expressions of the response,
\* in which "if cache_age" takes the age 0 as it takes None.
get_status(n, data, ts) ==
  LET cache_age == IF ts # NoTimestamp THEN TimedeltaSeconds(n - ts) ELSE NoAge
      truthy == cache_age # NoAge /\ cache_age # 0
  IN [cache_age_seconds |-> cache_age,
      indicators_cached |-> IF data # << >> THEN Len(data) ELSE 0,
      cache_expired |-> IF truthy THEN cache_age > CACHE_DURATION ELSE TRUE]

(***************************************************************************)
(* State.                                                                  *)
(***************************************************************************)
VARIABLES
  now,              \* the wall clock, in seconds
  nticks,           \* how many times the clock has advanced
  cache_data,       \* main.cache_data: << >> or the cached list
  cache_timestamp,  \* main.cache_timestamp: NoTimestamp or a time
  db,               \* the committed rows of table indicadores
  started,          \* startup_event has returned: requests are served
  kind,             \* per coroutine: "none", "startup", "read", "force"
  pc,               \* per coroutine: the await it is suspended at
  indicators,       \* per coroutine: the local variable indicators
  ret,              \* per coroutine: what get_cached_indicators returned
  results,          \* get_all_indicators, step by step: each task's outcome
  completion,       \* ... the order in which the tasks settled
  agg_return,       \* ... what the call returned
  cur,              \* one client's current read call (observation)
  calls,            \* that client's last two completed read calls (observation)
  fetch_log,        \* the last two fetcher calls: input and record (observation)
  active_sessions,  \* auth.active_sessions: token -> created_at, expires_at
  analises_economistas, \* main.analises_economistas: slug -> analysis
  resp,             \* the last auth operation and what it returned (observation)
  revoked,          \* tokens deleted and not issued again since (observation)
  lookup,           \* the last get_indicador_by_name: input and response (observation)
  historico,        \* the last historical lookup of detalhe_indicador (observation)
  shared,           \* the list the page client holds is the object cache_data
  before,           \* cache_data, cache_timestamp when the client's refresh started (observation)
  agg_order,        \* the refreshes in flight, in the order their aggregations started (observation)
  older             \* those whose aggregation started before the cached list's (observation)

cacheVars == <<now, nticks, cache_data, cache_timestamp, db, started, kind, pc,
               indicators, ret>>
aggVars == <<results, completion, agg_return>>
seqVars == <<cur, calls>>
clockVars == <<now, nticks>>
storeVars == <<cache_data, cache_timestamp, db, started, kind, pc, indicators, ret>>
fetchVars == <<fetch_log>>
authVars == <<active_sessions, analises_economistas, resp, revoked>>
lookupVars == <<lookup>>
pageVars == <<historico, shared>>
trackVars == <<before, agg_order, older>>
extVars == <<fetchVars, authVars, lookupVars, pageVars, trackVars>>
vars == <<now, nticks, cache_data, cache_timestamp, db, started, kind, pc,
          indicators, ret, results, completion, agg_return, cur, calls,
          fetch_log, active_sessions, analises_economistas, resp, revoked, lookup,
          historico, shared, before, agg_order, older>>

NoReturn == [returned |-> FALSE, raised |-> FALSE, value |-> << >>]
NoCall == [start |-> 0, seen |-> NoTimestamp, nagg |-> 0, via |-> "none",
           after |-> NoTimestamp]
NoResponse == [op |-> "none", token |-> NoToken, password |-> "", slug |-> "",
               value |-> FALSE, redirect |-> ""]
NoLookup == [stage |-> "none", indicators |-> << >>, nome |-> << >>,
             status |-> 0, position |-> 0]
NoAnswer == [kind |-> "none", periods |-> 0]
NoSeries == [absent |-> TRUE, labels |-> << >>, valores |-> << >>, total_periodos |-> 0]
NoHistorico == [stage |-> "none", nome |-> "", slug |-> << >>, answer |-> NoAnswer,
                raises |-> FALSE, called |-> FALSE, escaped |-> FALSE,
                value |-> NoSeries]

\* The state when startup_event, having run init_db, has called
\* update_indicators_from_apis and awaits get_all_indicators.
Init ==
  /\ now = 0
  /\ nticks = 0
  /\ cache_data = << >>
  /\ cache_timestamp = NoTimestamp
  /\ db = SeedRows
  /\ started = FALSE
  /\ kind = [t \in Tasks |-> IF t = StartupTask THEN "startup" ELSE "none"]
  /\ pc = [t \in Tasks |-> IF t = StartupTask THEN "fetch" ELSE "idle"]
  /\ indicators = [t \in Tasks |-> << >>]
  /\ ret = [t \in Tasks |-> NoReturn]
  /\ results = [i \in Slots |-> "pending"]
  /\ completion = << >>
  /\ agg_return = NoReturn
  /\ cur = NoCall
  /\ calls = << >>
  /\ fetch_log = << >>
  /\ active_sessions = << >>
  /\ analises_economistas = << >>
  /\ resp = NoResponse
  /\ revoked = {}
  /\ lookup = NoLookup
  /\ historico = NoHistorico
  /\ shared = FALSE
  /\ before = << << >>, NoTimestamp >>
  /\ agg_order = << StartupTask >>
  /\ older = {}

(***************************************************************************)
(* The clock.                                                              *)
(***************************************************************************)
\* The advances of the clock the model draws from: the TTL, a second more, a day.
TickSteps == {CACHE_DURATION, CACHE_DURATION + 1, SecondsPerDay}

Tick(d) ==
  /\ nticks < MaxTicks
  /\ now' = now + d
  /\ nticks' = nticks + 1
  /\ UNCHANGED <<cache_data, cache_timestamp, db, started, kind, pc, indicators, ret>>

(***************************************************************************)
(* update_indicators_from_apis, one action per await.                      *)
(***************************************************************************)
\* The fetch scenarios a refresh draws from: every fetcher validated; one failure
\* record and one raised exception among validated records; every fetcher failed.
AllOk == [i \in Slots |-> "ok"]
PartialFail ==
  [i \in Slots |-> IF i = 2 THEN "fail" ELSE IF i = NumFetchers THEN "exc" ELSE "ok"]
AllFail == [i \in Slots |-> "fail"]
Scenarios == {AllOk, PartialFail, AllFail}

InUpdate(t) == pc[t] \in {"fetch", "delete", "commit"}

\* await api_service.get_all_indicators() returns; "if not indicators: return []",
\* else the store session opens and DELETE FROM indicadores is awaited.
FetchDone(t, settled, raised) ==
  /\ pc[t] = "fetch"
  /\ LET got == get_all_indicators(gather(settled, IdentityOrder), raised) IN
       /\ indicators' = [indicators EXCEPT ![t] = got]
       /\ pc' = [pc EXCEPT ![t] = IF got = << >> THEN "closing" ELSE "delete"]
  /\ UNCHANGED <<now, nticks, cache_data, cache_timestamp, db, started, kind, ret>>

\* The DELETE committed on its own, before the inserts.
DeleteDoneAutocommit(t, store_ok) ==
  /\ pc[t] = "delete"
  /\ IF store_ok
       THEN /\ pc' = [pc EXCEPT ![t] = "commit"]
            /\ db' = << >>
            /\ UNCHANGED indicators
       ELSE /\ pc' = [pc EXCEPT ![t] = "closing"]
            /\ indicators' = [indicators EXCEPT ![t] = << >>]
            /\ UNCHANGED db
  /\ UNCHANGED <<now, nticks, cache_data, cache_timestamp, started, kind, ret>>

\* await session.execute(DELETE ...) returns or raises; the inserts are queued
\* (session.add does not await) and session.commit() is awaited. An exception
\* lands in "except Exception: return []".
DeleteDone(t, store_ok) ==
  /\ pc[t] = "delete"
  /\ IF store_ok
       THEN /\ pc' = [pc EXCEPT ![t] = "commit"]
            /\ UNCHANGED indicators
       ELSE /\ pc' = [pc EXCEPT ![t] = "closing"]
            /\ indicators' = [indicators EXCEPT ![t] = << >>]
  /\ UNCHANGED <<now, nticks, cache_data, cache_timestamp, db, started, kind, ret>>

\* The assignment keeping the validated records only.
CacheAfterCommitValidatedOnly(ind, n) == <<SelectSeq(ind, LAMBDA r : r.validado), n>>

\* What update_indicators_from_apis does to (cache_data, cache_timestamp) once
\* the commit has returned.
CacheAfterCommit(ind, n) == <<ind, n>>

\* await session.commit() returns: the transaction (delete all, insert all)
\* becomes the table, then cache_data and cache_timestamp are assigned with no
\* await in between. A failed flush or commit raises: "return []".
CommitDone(t, store_ok) ==
  /\ pc[t] = "commit"
  /\ IF store_ok
       THEN /\ db' = ReplaceAll(indicators[t])
            /\ cache_data' = CacheAfterCommit(indicators[t], now)[1]
            /\ cache_timestamp' = CacheAfterCommit(indicators[t], now)[2]
            /\ UNCHANGED indicators
       ELSE /\ indicators' = [indicators EXCEPT ![t] = << >>]
            /\ UNCHANGED <<db, cache_data, cache_timestamp>>
  /\ pc' = [pc EXCEPT ![t] = "closing"]
  /\ UNCHANGED <<now, nticks, started, kind, ret>>

(***************************************************************************)
(* get_cached_indicators.                                                  *)
(***************************************************************************)
Returned(v) == [returned |-> TRUE, raised |-> FALSE, value |-> v]
Raised == [returned |-> FALSE, raised |-> TRUE, value |-> << >>]

\* The code of get_cached_indicators after its staleness branch: the list just
\* fetched, else the cached list, else the store. The next pc and the return.
ServeFrom(t, fetched) ==
  IF fetched # << >>
    THEN /\ pc' = [pc EXCEPT ![t] = "done"]
         /\ ret' = [ret EXCEPT ![t] = Returned(fetched)]
    ELSE IF cache_data # << >>
      THEN /\ pc' = [pc EXCEPT ![t] = "done"]
           /\ ret' = [ret EXCEPT ![t] = Returned(cache_data)]
      ELSE /\ pc' = [pc EXCEPT ![t] = "select"]
           /\ UNCHANGED ret

\* A request handler calls get_cached_indicators: the staleness test, then the
\* refresh (up to its first await) or the serving code.
ReadStart(t) ==
  /\ started
  /\ pc[t] = "idle"
  /\ kind' = [kind EXCEPT ![t] = "read"]
  /\ IF CacheExpired(now, cache_timestamp)
       THEN /\ pc' = [pc EXCEPT ![t] = "fetch"]
            /\ UNCHANGED ret
       ELSE ServeFrom(t, << >>)
  /\ UNCHANGED <<now, nticks, cache_data, cache_timestamp, db, started, indicators>>

\* update_indicators_from_apis returns (its context managers have closed) to
\* get_cached_indicators ("if indicators: return indicators", then the serving
\* code), to the background task runner, or to startup_event.
UpdateReturn(t) ==
  /\ pc[t] = "closing"
  /\ IF kind[t] = "read"
       THEN /\ ServeFrom(t, indicators[t])
            /\ UNCHANGED <<kind, started>>
       ELSE /\ pc' = [pc EXCEPT ![t] = "idle"]
            /\ kind' = [kind EXCEPT ![t] = "none"]
            /\ started' = (started \/ kind[t] = "startup")
            /\ UNCHANGED ret
  /\ indicators' = [indicators EXCEPT ![t] = << >>]
  /\ UNCHANGED <<now, nticks, cache_data, cache_timestamp, db>>

\* await session.execute(select(IndicadorDB)) returns the rows, or raises: no
\* handler of get_cached_indicators catches it.
SelectDone(t, store_ok) ==
  /\ pc[t] = "select"
  /\ pc' = [pc EXCEPT ![t] = "done"]
  /\ ret' = [ret EXCEPT ![t] = IF store_ok THEN Returned(SelectAll(db)) ELSE Raised]
  /\ UNCHANGED <<now, nticks, cache_data, cache_timestamp, db, started, kind, indicators>>

\* The request handler is done with the list.
Release(t) ==
  /\ pc[t] = "done"
  /\ pc' = [pc EXCEPT ![t] = "idle"]
  /\ kind' = [kind EXCEPT ![t] = "none"]
  /\ ret' = [ret EXCEPT ![t] = NoReturn]
  /\ UNCHANGED <<now, nticks, cache_data, cache_timestamp, db, started, indicators>>

(***************************************************************************)
(* force_update: the acknowledgement is returned and the background task   *)
(* runs update_indicators_from_apis.                                       *)
(***************************************************************************)
\* force_update scheduling the refresh only when the cache has expired.
ForceStartBehindTTL(t) ==
  /\ started
  /\ pc[t] = "idle"
  /\ IF CacheExpired(now, cache_timestamp)
       THEN /\ kind' = [kind EXCEPT ![t] = "force"]
            /\ pc' = [pc EXCEPT ![t] = "fetch"]
       ELSE UNCHANGED <<kind, pc>>
  /\ UNCHANGED <<now, nticks, cache_data, cache_timestamp, db, started, indicators, ret>>

ForceStart(t) ==
  /\ started
  /\ pc[t] = "idle"
  /\ kind' = [kind EXCEPT ![t] = "force"]
  /\ pc' = [pc EXCEPT ![t] = "fetch"]
  /\ UNCHANGED <<now, nticks, cache_data, cache_timestamp, db, started, indicators, ret>>

(***************************************************************************)
(* The service: concurrent requests.                                       *)
(***************************************************************************)
Clock == \E d \in TickSteps : Tick(d) /\ UNCHANGED <<aggVars, seqVars, extVars>>
Fetched ==
  \E t \in Tasks, s \in Scenarios, raised \in BOOLEAN :
    FetchDone(t, s, raised) /\ UNCHANGED <<aggVars, seqVars, extVars>>
Deleted ==
  \E t \in Tasks, ok \in BOOLEAN : DeleteDone(t, ok) /\ UNCHANGED <<aggVars, seqVars, extVars>>
Committed ==
  \E t \in Tasks, ok \in BOOLEAN : CommitDone(t, ok) /\ UNCHANGED <<aggVars, seqVars, extVars>>
Read == \E t \in Tasks : ReadStart(t) /\ UNCHANGED <<aggVars, seqVars, extVars>>
Resumed == \E t \in Tasks : UpdateReturn(t) /\ UNCHANGED <<aggVars, seqVars, extVars>>
Selected ==
  \E t \in Tasks, ok \in BOOLEAN : SelectDone(t, ok) /\ UNCHANGED <<aggVars, seqVars, extVars>>
Released == \E t \in Tasks : Release(t) /\ UNCHANGED <<aggVars, seqVars, extVars>>
Forced == \E t \in Tasks : ForceStart(t) /\ UNCHANGED <<aggVars, seqVars, extVars>>

Next ==
  \/ Clock
  \/ Fetched
  \/ Deleted
  \/ Committed
  \/ Read
  \/ Resumed
  \/ Selected
  \/ Released
  \/ Forced

Spec == Init /\ [][Next]_vars

(***************************************************************************)
(* One client calling get_cached_indicators again and again, one call at a *)
(* time, with no force_update: the calls are observed in cur and calls.    *)
(***************************************************************************)
Client == StartupTask

LastTwo(s) == IF Len(s) > 2 THEN SubSeq(s, Len(s) - 1, Len(s)) ELSE s

\* cur: when the call started, the cache_timestamp it saw, how many times it
\* called update_indicators_from_apis; calls: the same for the calls that have
\* returned or raised, with the code they ended in ("idle": served from the
\* cache at once, "closing": after the refresh, "select": from the store) and
\* the cache_timestamp they left.
Observe ==
  LET starting == pc[Client] = "idle" /\ pc'[Client] # "idle"
      finishing == pc[Client] # "done" /\ pc'[Client] = "done"
      c == IF starting
             THEN [start |-> now, seen |-> cache_timestamp,
                   nagg |-> IF pc'[Client] = "fetch" THEN 1 ELSE 0,
                   via |-> "none", after |-> NoTimestamp]
             ELSE cur
  IN /\ cur' = IF finishing THEN NoCall ELSE c
     /\ calls' = IF finishing
                   THEN LastTwo(Append(calls, [c EXCEPT !.via = pc[Client],
                                                        !.after = cache_timestamp']))
                   ELSE calls

SeqClock == \E d \in TickSteps : Tick(d) /\ UNCHANGED <<aggVars, seqVars, extVars>>
SeqFetched ==
  \E s \in Scenarios, raised \in BOOLEAN :
    FetchDone(Client, s, raised) /\ Observe /\ UNCHANGED <<aggVars, extVars>>
SeqDeleted == \E ok \in BOOLEAN : DeleteDone(Client, ok) /\ Observe /\ UNCHANGED <<aggVars, extVars>>
SeqCommitted == \E ok \in BOOLEAN : CommitDone(Client, ok) /\ Observe /\ UNCHANGED <<aggVars, extVars>>
SeqRead == ReadStart(Client) /\ Observe /\ UNCHANGED <<aggVars, extVars>>
SeqResumed == UpdateReturn(Client) /\ Observe /\ UNCHANGED <<aggVars, extVars>>
SeqSelected == \E ok \in BOOLEAN : SelectDone(Client, ok) /\ Observe /\ UNCHANGED <<aggVars, extVars>>
SeqReleased == Release(Client) /\ Observe /\ UNCHANGED <<aggVars, extVars>>

NextSeq ==
  \/ SeqClock
  \/ SeqFetched
  \/ SeqDeleted
  \/ SeqCommitted
  \/ SeqRead
  \/ SeqResumed
  \/ SeqSelected
  \/ SeqReleased

SpecSeq == Init /\ [][NextSeq]_vars

(***************************************************************************)
(* One call of get_all_indicators with its fetchers settling one by one,   *)
(* in any order.                                                           *)
(***************************************************************************)
AllSettled == \A i \in Slots : results[i] # "pending"

\* Fetcher i returns its record or raises.
FetcherSettles(i, o) ==
  /\ ~agg_return.returned
  /\ results[i] = "pending"
  /\ results' = [results EXCEPT ![i] = o]
  /\ completion' = Append(completion, i)
  /\ UNCHANGED agg_return

\* gather has settled every task: the loop runs and the list is returned, or an
\* exception inside the try block makes the call return [].
GatherReturn(raised) ==
  /\ ~agg_return.returned
  /\ AllSettled
  /\ agg_return' = [returned |-> TRUE, raised |-> raised,
                    value |-> get_all_indicators(gather(results, completion), raised)]
  /\ UNCHANGED <<results, completion>>

\* The next call of get_all_indicators.
NewCall ==
  /\ agg_return.returned
  /\ results' = [i \in Slots |-> "pending"]
  /\ completion' = << >>
  /\ agg_return' = NoReturn

AggSettle ==
  \E i \in Slots, o \in Outcomes : FetcherSettles(i, o) /\ UNCHANGED <<cacheVars, seqVars, extVars>>
AggReturn == \E raised \in BOOLEAN : GatherReturn(raised) /\ UNCHANGED <<cacheVars, seqVars, extVars>>
AggNewCall == NewCall /\ UNCHANGED <<cacheVars, seqVars, extVars>>

NextAgg ==
  \/ AggSettle
  \/ AggReturn
  \/ AggNewCall

SpecAgg == Init /\ [][NextAgg]_vars

(***************************************************************************)
(* One fetcher (get_selic_rate ... get_confidence_consumer): the answer of *)
(* the provider, _fetch_bcb_series, parse_float, the range test and the    *)
(* record. Raw values are counted in hundredths of the unit of the series. *)
(***************************************************************************)
Fetchers == 1..Len(FetcherNome)

\* The two ends of the range test of each fetcher, in the order of the task list.
FetcherMin ==
  << 10, -2, -5, 4, 500000, 4, 1000, -10000, 80000, 4000000, 2, -10, -10, 50 >>
FetcherMax ==
  << 20, 15, 10, 7, 1500000, 15, 5000, 10000, 150000, 8000000, 8, 10, 10, 150 >>

Hundredths(x) == x * 100

\* The fetchers that read data[0]['valor'] (KeyError when the field is missing);
\* the others read data[..].get("valor").
SubscriptFetchers == {1, 4}

\* What the provider may answer without a value:
\*   "transport"   session.get or response.json raises
\*   "status"      an HTTP status other than 200
\*   "empty"       an empty list
\*   "malformed"   a list whose element is not an object
\*   "missing"     an object without the field 'valor'
\*   "unparsable"  a 'valor' that float() rejects
FailureKinds == {"transport", "status", "empty", "malformed", "missing", "unparsable"}

\* The raw values the model draws for fetcher i: around both ends of its range.
RawValues(i) ==
  { Hundredths(FetcherMin[i]) - 1, Hundredths(FetcherMin[i]),
    Hundredths(FetcherMin[i]) + 1, Hundredths(FetcherMax[i]) - 1,
    Hundredths(FetcherMax[i]), Hundredths(FetcherMax[i]) + 1 }

Payloads(i) ==
  {[kind |-> k, value |-> 0] : k \in FailureKinds}
    \cup {[kind |-> "value", value |-> v] : v \in RawValues(i)}

NoData == [kind |-> "none", value |-> 0]

\* _fetch_bcb_series: the list, or None for an exception, a status other than
\* 200 or an empty list.
fetch_bcb_series(p) ==
  IF p.kind \in {"transport", "status", "empty"} THEN NoData ELSE p

\* parse_float of the field 'valor': the float, or None.
parse_float(data) ==
  IF data.kind = "value" THEN [ok |-> TRUE, value |-> data.value]
                         ELSE [ok |-> FALSE, value |-> 0]

\* The statements of fetcher i that raise inside its try block.
BodyRaises(i, data) ==
  \/ data.kind = "malformed"
  \/ data.kind = "missing" /\ i \in SubscriptFetchers

\* The range test with both ends excluded.
WithinBoundExclusive(i, v) ==
  Hundredths(FetcherMin[i]) < v /\ v < Hundredths(FetcherMax[i])

\* lo <= valor <= hi
WithinBound(i, v) ==
  Hundredths(FetcherMin[i]) <= v /\ v <= Hundredths(FetcherMax[i])

\* Fetcher i: the validated record is returned inside the range test; every
\* other path (no data, an exception caught by "except Exception", a valor that
\* is None, a value out of range) reaches the final return.
Fetcher(i, p) ==
  LET data == fetch_bcb_series(p) IN
    IF data = NoData \/ BodyRaises(i, data)
      THEN FailureRecord(i)
      ELSE LET valor == parse_float(data) IN
             IF valor.ok /\ WithinBound(i, valor.value)
               THEN ValidatedRecord(i)
               ELSE FailureRecord(i)

\* One call of fetcher i: nothing leaves its try/except, the record is returned.
FetcherCall(i, p) ==
  fetch_log' = LastTwo(Append(fetch_log,
                 [fetcher |-> i, kind |-> p.kind, value |-> p.value,
                  raised |-> FALSE, record |-> Fetcher(i, p)]))

FetchCall ==
  \E i \in Fetchers : \E p \in Payloads(i) :
    FetcherCall(i, p) /\ UNCHANGED <<cacheVars, aggVars, seqVars, authVars, lookupVars, pageVars, trackVars>>

NextFetch == FetchCall

SpecFetch == Init /\ [][NextFetch]_vars

(***************************************************************************)
(* Sessions (src/auth.py) and the handlers that use them (src/main.py):    *)
(* login, logout, home and detalhe_indicador (validate_session only) and   *)
(* salvar_analise. The handlers have no await between their calls into     *)
(* auth and their return, so each is one action.                           *)
(***************************************************************************)
Tokens == 1..NumTokens

ADMIN_PASSWORD == "economista2025"
Passwords == {ADMIN_PASSWORD, "Economista2025", "senha errada"}

\* hashlib.sha256(password.encode()).hexdigest()
hash_password(password) ==
  CASE password = "economista2025" ->
         "71ccb6b124aa0e1ef0c56f154bbf27d7e049fb6fbead22798baa7ccb08697dc8"
    [] password = "Economista2025" ->
         "3a368b3be5648456c1b4252ac100153bd778de3425ffb7f071ec4bbddffaf055"
    [] password = "senha errada" ->
         "86dbee418b84aa7fe5bdef349c4e3f1bd5f34bb0048bb9ccfc6d9d94832670fc"

\* The comparison of a digest with itself.
VerifyAnyPassword(password) == hash_password(password) = hash_password(password)

\* hash_password(password) == hash_password(ADMIN_PASSWORD)
verify_password(password) == hash_password(password) = hash_password(ADMIN_PASSWORD)

\* del d[key] and d[key] = value on a dict.
Without(d, key) == [k \in DOMAIN d \ {key} |-> d[k]]
With(d, key, value) == [k \in DOMAIN d \cup {key} |-> IF k = key THEN value ELSE d[k]]

\* create_session: the entry stored under the token drawn; n1 and n2 are the two
\* readings of datetime.now().
create_session(sessions, token, n1, n2) ==
  With(sessions, token, [created_at |-> n1, expires_at |-> n2 + SessionSeconds])

\* The expiry test with >= in place of >.
SessionExpiredAtDeadline(n, session) == n >= session.expires_at

\* datetime.now() > session["expires_at"]
SessionExpired(n, session) == n > session.expires_at

\* validate_session without its expiry test.
validate_session_ignoring_expiry(sessions, token, n) ==
  [valid |-> token # NoToken /\ token \in DOMAIN sessions, sessions |-> sessions]

\* validate_session: what it returns and what it leaves in active_sessions.
validate_session(sessions, token, n) ==
  IF token = NoToken \/ token \notin DOMAIN sessions
    THEN [valid |-> FALSE, sessions |-> sessions]
    ELSE IF SessionExpired(n, sessions[token])
      THEN [valid |-> FALSE, sessions |-> Without(sessions, token)]
      ELSE [valid |-> TRUE, sessions |-> sessions]

\* delete_session emptying the dict.
delete_session_clearing(sessions, token) ==
  IF token \in DOMAIN sessions THEN << >> ELSE sessions

\* delete_session
delete_session(sessions, token) ==
  IF token \in DOMAIN sessions THEN Without(sessions, token) ELSE sessions

\* clean_expired_sessions with >= in place of >.
clean_expired_sessions_at_deadline(sessions, n) ==
  LET expired == {t \in DOMAIN sessions : n >= sessions[t].expires_at}
  IN [t \in DOMAIN sessions \ expired |-> sessions[t]]

\* clean_expired_sessions: the tokens are collected first, then deleted.
clean_expired_sessions(sessions, n) ==
  LET expired == {t \in DOMAIN sessions : n > sessions[t].expires_at}
  IN [t \in DOMAIN sessions \ expired |-> sessions[t]]

\* The advances of the clock the session handlers see: a second, a session life.
AuthTickSteps == {1, SessionSeconds}

\* The clock advances between two requests.
AuthTick(d) ==
  /\ nticks < MaxAuthTicks
  /\ now' = now + d
  /\ nticks' = nticks + 1
  /\ resp' = [NoResponse EXCEPT !.op = "tick"]
  /\ UNCHANGED <<active_sessions, analises_economistas, revoked>>

\* POST /admin/login. token is what secrets.token_urlsafe returns; d is the
\* advance of the clock between the two datetime.now() of create_session.
login(password, token, d) ==
  /\ nticks + d <= MaxAuthTicks
  /\ IF verify_password(password)
       THEN /\ active_sessions' = create_session(active_sessions, token, now, now + d)
            /\ now' = now + d
            /\ nticks' = nticks + d
            /\ revoked' = revoked \ {token}
            /\ resp' = [op |-> "login", token |-> token, password |-> password,
                        slug |-> "", value |-> TRUE, redirect |-> "/"]
       ELSE /\ resp' = [op |-> "login", token |-> NoToken, password |-> password,
                        slug |-> "", value |-> FALSE,
                        redirect |-> "/admin/login?error=senha_invalida"]
            /\ UNCHANGED <<active_sessions, now, nticks, revoked>>
  /\ UNCHANGED analises_economistas

\* GET /admin/logout
logout(session_token) ==
  /\ IF session_token # NoToken
       THEN /\ active_sessions' = delete_session(active_sessions, session_token)
            /\ revoked' = revoked \cup {session_token}
       ELSE UNCHANGED <<active_sessions, revoked>>
  /\ resp' = [op |-> "logout", token |-> session_token, password |-> "",
              slug |-> "", value |-> FALSE, redirect |-> "/"]
  /\ UNCHANGED <<now, nticks, analises_economistas>>

\* home and detalhe_indicador: is_authenticated = auth.validate_session(session_token)
is_authenticated(session_token) ==
  LET r == validate_session(active_sessions, session_token, now) IN
    /\ active_sessions' = r.sessions
    /\ resp' = [op |-> "validate", token |-> session_token, password |-> "",
                slug |-> "", value |-> r.valid, redirect |-> ""]
    /\ UNCHANGED <<now, nticks, analises_economistas, revoked>>

Slugs == {"taxa-selic", "pib"}
Conteudos == {"analise A"}

\* datetime.now().strftime("%d/%m/%Y as %H:%M"): the time to the minute.
FormatMinute(n) == n \div 60

\* POST /indicador/{slug}/salvar-analise
salvar_analise(slug, conteudo, session_token) ==
  LET r == validate_session(active_sessions, session_token, now) IN
    /\ active_sessions' = r.sessions
    /\ IF ~r.valid
         THEN /\ resp' = [op |-> "save", token |-> session_token, password |-> "",
                          slug |-> slug, value |-> FALSE, redirect |-> "/admin/login"]
              /\ UNCHANGED analises_economistas
         ELSE /\ analises_economistas' =
                   With(analises_economistas, slug,
                        [titulo |-> "titulo", conteudo |-> conteudo, autor |-> "autor",
                         link_materia |-> "", data |-> FormatMinute(now)])
              /\ resp' = [op |-> "save", token |-> session_token, password |-> "",
                          slug |-> slug, value |-> TRUE, redirect |-> "/indicador/{slug}"]
    /\ UNCHANGED <<now, nticks, revoked>>

\* A call of clean_expired_sessions (the function has no caller in src/).
sweep ==
  /\ active_sessions' = clean_expired_sessions(active_sessions, now)
  /\ resp' = [op |-> "clean", token |-> NoToken, password |-> "", slug |-> "",
              value |-> (active_sessions' # active_sessions), redirect |-> ""]
  /\ UNCHANGED <<now, nticks, analises_economistas, revoked>>

Cookies == Tokens \cup {NoToken}
restOfAuth == <<storeVars, aggVars, seqVars, fetchVars, lookupVars, pageVars, trackVars>>

AuthClock == \E d \in AuthTickSteps : AuthTick(d) /\ UNCHANGED restOfAuth
AuthLogin ==
  \E password \in Passwords, token \in Tokens, d \in {0, 1} :
    login(password, token, d) /\ UNCHANGED restOfAuth
AuthLogout == \E c \in Cookies : logout(c) /\ UNCHANGED restOfAuth
AuthValidate == \E c \in Cookies : is_authenticated(c) /\ UNCHANGED restOfAuth
AuthSave ==
  \E slug \in Slugs, conteudo \in Conteudos, c \in Cookies :
    salvar_analise(slug, conteudo, c) /\ UNCHANGED restOfAuth
AuthSweep == sweep /\ UNCHANGED restOfAuth

\* The session handlers: login, logout and the pages that validate the cookie.
NextAuth ==
  \/ AuthClock
  \/ AuthLogin
  \/ AuthLogout
  \/ AuthValidate

SpecAuth == Init /\ [][NextAuth]_vars

\* The session handlers with time passing and requests of every kind arriving
\* again and again; which cookie a request carries is up to its sender.
SpecAuthLive ==
  /\ Init
  /\ [][NextAuth]_vars
  /\ WF_vars(AuthClock)
  /\ WF_vars(AuthLogin)
  /\ WF_vars(AuthLogout)
  /\ WF_vars(AuthValidate)

\* The session handlers and salvar_analise.
NextSave ==
  \/ AuthClock
  \/ AuthLogin
  \/ AuthLogout
  \/ AuthSave

SpecSave == Init /\ [][NextSave]_vars

\* The session handlers with clean_expired_sessions called at any moment.
NextSweep ==
  \/ AuthClock
  \/ AuthLogin
  \/ AuthLogout
  \/ AuthValidate
  \/ AuthSweep

SpecSweep == Init /\ [][NextSweep]_vars

(***************************************************************************)
(* One client reading while force_update requests come in: the reads run   *)
(* in one coroutine, the background task of force_update in another. resp  *)
(* holds the acknowledgement of force_update until its task has ended.     *)
(***************************************************************************)
Refresher == CHOOSE t \in Tasks : t # Client

restOfForce == <<aggVars, seqVars, fetchVars, lookupVars, pageVars, trackVars, active_sessions,
                 analises_economistas, revoked>>

\* return {"message": "Atualizacao iniciada em background", ...}
Acknowledgement ==
  [NoResponse EXCEPT !.op = "force_update", !.value = TRUE]

ForceRequested ==
  /\ ForceStart(Refresher)
  /\ resp' = Acknowledgement
  /\ UNCHANGED restOfForce
ForceFetched ==
  \E s \in Scenarios, raised \in BOOLEAN :
    FetchDone(Refresher, s, raised) /\ UNCHANGED <<restOfForce, resp>>
ForceDeleted ==
  \E ok \in BOOLEAN : DeleteDone(Refresher, ok) /\ UNCHANGED <<restOfForce, resp>>
ForceCommitted ==
  \E ok \in BOOLEAN : CommitDone(Refresher, ok) /\ UNCHANGED <<restOfForce, resp>>
ForceEnded ==
  /\ UpdateReturn(Refresher)
  /\ resp' = [NoResponse EXCEPT !.op = "refreshed"]
  /\ UNCHANGED restOfForce

ReaderRead == ReadStart(Client) /\ UNCHANGED <<restOfForce, resp>>
ReaderFetched ==
  \E s \in Scenarios, raised \in BOOLEAN :
    FetchDone(Client, s, raised) /\ UNCHANGED <<restOfForce, resp>>
ReaderDeleted ==
  \E ok \in BOOLEAN : DeleteDone(Client, ok) /\ UNCHANGED <<restOfForce, resp>>
ReaderCommitted ==
  \E ok \in BOOLEAN : CommitDone(Client, ok) /\ UNCHANGED <<restOfForce, resp>>
ReaderResumed == UpdateReturn(Client) /\ UNCHANGED <<restOfForce, resp>>
ReaderSelected ==
  \E ok \in BOOLEAN : SelectDone(Client, ok) /\ UNCHANGED <<restOfForce, resp>>
ReaderReleased == Release(Client) /\ UNCHANGED <<restOfForce, resp>>

NextForce ==
  \/ SeqClock
  \/ ForceRequested
  \/ ForceFetched
  \/ ForceDeleted
  \/ ForceCommitted
  \/ ForceEnded
  \/ ReaderRead
  \/ ReaderFetched
  \/ ReaderDeleted
  \/ ReaderCommitted
  \/ ReaderResumed
  \/ ReaderSelected
  \/ ReaderReleased

SpecForce == Init /\ [][NextForce]_vars

(***************************************************************************)
(* get_indicador_by_name. A str is modelled as the sequence of its         *)
(* characters.                                                             *)
(***************************************************************************)
\* The characters of the names the records of the service carry.
Chars(s) ==
  CASE s = "Taxa Selic" ->
         << "T", "a", "x", "a", " ", "S", "e", "l", "i", "c" >>
    [] s = "Inflacao (IPCA)" ->
         << "I", "n", "f", "l", "a", "c", "a", "o", " ", "(", "I", "P", "C",
            "A", ")" >>
    [] s = "IGP-M" ->
         << "I", "G", "P", "-", "M" >>
    [] s = "Dolar (USD/BRL)" ->
         << "D", "o", "l", "a", "r", " ", "(", "U", "S", "D", "/", "B", "R",
            "L", ")" >>
    [] s = "PIB" ->
         << "P", "I", "B" >>
    [] s = "Taxa de Desemprego" ->
         << "T", "a", "x", "a", " ", "d", "e", " ", "D", "e", "s", "e", "m",
            "p", "r", "e", "g", "o" >>
    [] s = "Rendimento Medio Real" ->
         << "R", "e", "n", "d", "i", "m", "e", "n", "t", "o", " ", "M", "e",
            "d", "i", "o", " ", "R", "e", "a", "l" >>
    [] s = "Balanca Comercial" ->
         << "B", "a", "l", "a", "n", "c", "a", " ", "C", "o", "m", "e", "r",
            "c", "i", "a", "l" >>
    [] s = "Ibovespa" ->
         << "I", "b", "o", "v", "e", "s", "p", "a" >>
    [] s = "Volume de Credito" ->
         << "V", "o", "l", "u", "m", "e", " ", "d", "e", " ", "C", "r", "e",
            "d", "i", "t", "o" >>
    [] s = "Taxa de Inadimplencia" ->
         << "T", "a", "x", "a", " ", "d", "e", " ", "I", "n", "a", "d", "i",
            "m", "p", "l", "e", "n", "c", "i", "a" >>
    [] s = "Producao Industrial" ->
         << "P", "r", "o", "d", "u", "c", "a", "o", " ", "I", "n", "d", "u",
            "s", "t", "r", "i", "a", "l" >>
    [] s = "Vendas no Varejo" ->
         << "V", "e", "n", "d", "a", "s", " ", "n", "o", " ", "V", "a", "r",
            "e", "j", "o" >>
    [] s = "Confianca do Consumidor" ->
         << "C", "o", "n", "f", "i", "a", "n", "c", "a", " ", "d", "o", " ",
            "C", "o", "n", "s", "u", "m", "i", "d", "o", "r" >>
    [] s = "Indicador 0" ->
         << "I", "n", "d", "i", "c", "a", "d", "o", "r", " ", "0" >>
    [] s = "Indicador 1" ->
         << "I", "n", "d", "i", "c", "a", "d", "o", "r", " ", "1" >>
    [] s = "Indicador 2" ->
         << "I", "n", "d", "i", "c", "a", "d", "o", "r", " ", "2" >>
    [] s = "Indicador 3" ->
         << "I", "n", "d", "i", "c", "a", "d", "o", "r", " ", "3" >>
    [] s = "Indicador 4" ->
         << "I", "n", "d", "i", "c", "a", "d", "o", "r", " ", "4" >>
    [] s = "Indicador 5" ->
         << "I", "n", "d", "i", "c", "a", "d", "o", "r", " ", "5" >>
    [] s = "Indicador 6" ->
         << "I", "n", "d", "i", "c", "a", "d", "o", "r", " ", "6" >>
    [] s = "Indicador 7" ->
         << "I", "n", "d", "i", "c", "a", "d", "o", "r", " ", "7" >>
    [] s = "Indicador 8" ->
         << "I", "n", "d", "i", "c", "a", "d", "o", "r", " ", "8" >>
    [] s = "Indicador 9" ->
         << "I", "n", "d", "i", "c", "a", "d", "o", "r", " ", "9" >>
    [] s = "Indicador 10" ->
         << "I", "n", "d", "i", "c", "a", "d", "o", "r", " ", "1", "0" >>
    [] s = "Indicador 11" ->
         << "I", "n", "d", "i", "c", "a", "d", "o", "r", " ", "1", "1" >>
    [] s = "Indicador 12" ->
         << "I", "n", "d", "i", "c", "a", "d", "o", "r", " ", "1", "2" >>
    [] s = "Indicador 13" ->
         << "I", "n", "d", "i", "c", "a", "d", "o", "r", " ", "1", "3" >>
    [] s = "Geracao de Empregos Formais" ->
         << "G", "e", "r", "a", "c", "a", "o", " ", "d", "e", " ", "E", "m",
            "p", "r", "e", "g", "o", "s", " ", "F", "o", "r", "m", "a", "i",
            "s" >>
    [] s = "Corrente de Comercio" ->
         << "C", "o", "r", "r", "e", "n", "t", "e", " ", "d", "e", " ", "C",
            "o", "m", "e", "r", "c", "i", "o" >>
    [] s = "Indice de Confianca do Consumidor" ->
         << "I", "n", "d", "i", "c", "e", " ", "d", "e", " ", "C", "o", "n",
            "f", "i", "a", "n", "c", "a", " ", "d", "o", " ", "C", "o", "n",
            "s", "u", "m", "i", "d", "o", "r" >>

UpperCase ==
  << "A", "B", "C", "D", "E", "F", "G", "H", "I", "J", "K", "L", "M", "N", "O",
  "P", "Q", "R", "S", "T", "U", "V", "W", "X", "Y", "Z" >>
LowerCase ==
  << "a", "b", "c", "d", "e", "f", "g", "h", "i", "j", "k", "l", "m", "n", "o",
  "p", "q", "r", "s", "t", "u", "v", "w", "x", "y", "z" >>

\* str.lower()
lower(cs) ==
  [i \in 1..Len(cs) |->
     IF \E k \in 1..Len(UpperCase) : UpperCase[k] = cs[i]
       THEN LowerCase[CHOOSE k \in 1..Len(UpperCase) : UpperCase[k] = cs[i]]
       ELSE cs[i]]

\* str.replace(ch, '')
replace(cs, ch) == SelectSeq(cs, LAMBDA c : c # ch)

\* needle in hay, for two str
Contains(needle, hay) ==
  \E k \in 0..(Len(hay) - Len(needle)) : SubSeq(hay, k + 1, k + Len(needle)) = needle

\* The normalisation that lower-cases only.
NormalizeCaseOnly(cs) == lower(cs)

\* nome.lower().replace(' ', '').replace('-', '')
Normalize(cs) == replace(replace(lower(cs), " "), "-")

\* nome_ind_normalizado == nome_normalizado or nome_normalizado in nome_ind_normalizado
Matches(nome, indicator) ==
  LET nome_normalizado == Normalize(nome)
      nome_ind_normalizado == Normalize(Chars(indicator.nome))
  IN \/ nome_ind_normalizado = nome_normalizado
     \/ Contains(nome_normalizado, nome_ind_normalizado)

\* The loop over indicators: the first match is returned, else the 404.
get_indicador_by_name(list, nome) ==
  LET hits == {i \in 1..Len(list) : Matches(nome, list[i])} IN
    IF hits = {}
      THEN [status |-> 404, position |-> 0]
      ELSE [status |-> 200, position |-> CHOOSE i \in hits : \A j \in hits : i <= j]

\* The lists get_cached_indicators hands to the handler: a list built by
\* get_all_indicators, or the rows of the seeded store.
Snapshots ==
  {ResultsToIndicators(r) : r \in [Slots -> Outcomes]} \cup {SelectAll(SeedRows)}

\* The names asked for.
Queries ==
  { << "T", "a", "x", "a", " ", "S", "e", "l", "i", "c" >>,
    << "t", "a", "x", "a", "s", "e", "l", "i", "c" >>,
    << "T", "A", "X", "A", "-", "S", "E", "L", "I", "C" >>,
    << "s", "e", "l", "i", "c" >>,
    << "I", "G", "P", "-", "M" >>,
    << "i", "g", "p", "m" >>,
    << "t", "a", "x", "a" >>,
    << "I", "n", "d", "i", "c", "a", "d", "o", "r", " ", "1" >>,
    << "a" >>,
    << "-", " ", "-" >>,
    << "c", "a", "m", "b", "i", "o" >> }

\* GET /api/indicadores/{nome} arrives: get_cached_indicators has returned list.
LookupRequest(list, nome) ==
  /\ lookup.stage = "none"
  /\ lookup' = [stage |-> "pending", indicators |-> list, nome |-> nome,
                status |-> 0, position |-> 0]

\* The handler normalises the name, runs the loop and returns.
LookupCall ==
  /\ lookup.stage = "pending"
  /\ LET r == get_indicador_by_name(lookup.indicators, lookup.nome) IN
       lookup' = [lookup EXCEPT !.stage = "done", !.status = r.status,
                                !.position = r.position]

\* The response has been sent.
LookupReturn ==
  /\ lookup.stage = "done"
  /\ lookup' = NoLookup

restOfLookup == <<cacheVars, aggVars, seqVars, fetchVars, authVars, pageVars, trackVars>>

LookupRequested ==
  \E list \in Snapshots, nome \in Queries :
    LookupRequest(list, nome) /\ UNCHANGED restOfLookup
LookupCalled == LookupCall /\ UNCHANGED restOfLookup
LookupReturned == LookupReturn /\ UNCHANGED restOfLookup

NextLookup ==
  \/ LookupRequested
  \/ LookupCalled
  \/ LookupReturned

SpecLookup == Init /\ [][NextLookup]_vars

(***************************************************************************)
(* The service with no request at all: startup_event and the clock. cur    *)
(* records when the last refresh ended.                                    *)
(***************************************************************************)
IdleClock == \E d \in TickSteps : Tick(d) /\ UNCHANGED <<aggVars, seqVars, extVars>>
IdleFetched ==
  \E s \in Scenarios, raised \in BOOLEAN :
    FetchDone(StartupTask, s, raised) /\ UNCHANGED <<aggVars, seqVars, extVars>>
IdleDeleted ==
  \E ok \in BOOLEAN : DeleteDone(StartupTask, ok) /\ UNCHANGED <<aggVars, seqVars, extVars>>
IdleCommitted ==
  \E ok \in BOOLEAN : CommitDone(StartupTask, ok) /\ UNCHANGED <<aggVars, seqVars, extVars>>
\* startup_event returns: it has created no task, timer or loop.
IdleResumed ==
  /\ UpdateReturn(StartupTask)
  /\ cur' = [NoCall EXCEPT !.start = now, !.via = "startup"]
  /\ UNCHANGED <<aggVars, calls, extVars>>

NextIdle ==
  \/ IdleClock
  \/ IdleFetched
  \/ IdleDeleted
  \/ IdleCommitted
  \/ IdleResumed

SpecIdle == Init /\ [][NextIdle]_vars

(***************************************************************************)
(* get_indicador_slug and the historical series of detalhe_indicador. The  *)
(* names of the model are written without accents: the NFKD step of        *)
(* get_indicador_slug has nothing left to remove from them.                *)
(***************************************************************************)
Digits == {"0", "1", "2", "3", "4", "5", "6", "7", "8", "9"}

\* The characters \w matches once the name is lower-cased.
WordChars == {LowerCase[k] : k \in 1..Len(LowerCase)} \cup Digits \cup {"_"}

\* The characters [-\s] matches.
Separators == {" ", "-"}

RECURSIVE SkipSeparators(_)
SkipSeparators(cs) ==
  IF cs # << >> /\ Head(cs) \in Separators THEN SkipSeparators(Tail(cs)) ELSE cs

\* re.sub(r'[-\s]+', '-', slug)
RECURSIVE Hyphenate(_)
Hyphenate(cs) ==
  IF cs = << >>
    THEN << >>
    ELSE IF Head(cs) \in Separators
      THEN << "-" >> \o Hyphenate(SkipSeparators(cs))
      ELSE << Head(cs) >> \o Hyphenate(Tail(cs))

RECURSIVE StripLeft(_)
StripLeft(cs) == IF cs # << >> /\ Head(cs) = "-" THEN StripLeft(Tail(cs)) ELSE cs

RECURSIVE StripRight(_)
StripRight(cs) ==
  IF cs # << >> /\ cs[Len(cs)] = "-" THEN StripRight(SubSeq(cs, 1, Len(cs) - 1)) ELSE cs

\* lower(), re.sub(r'[^\w\s-]', '', ...), re.sub(r'[-\s]+', '-', ...), strip('-')
get_indicador_slug(nome) ==
  LET kept == SelectSeq(lower(nome), LAMBDA c : c \in WordChars \cup Separators)
  IN StripRight(StripLeft(Hyphenate(kept)))

INDICADORES_COM_HISTORICO ==
  { << "t", "a", "x", "a", "-", "s", "e", "l", "i", "c" >>,
    << "i", "n", "f", "l", "a", "c", "a", "o", "-", "i", "p", "c", "a" >>,
    << "i", "g", "p", "-", "m" >>,
    << "d", "o", "l", "a", "r", "-", "u", "s", "d", "b", "r", "l" >>,
    << "p", "i", "b" >>,
    << "t", "a", "x", "a", "-", "d", "e", "-", "d", "e", "s", "e", "m", "p",
       "r", "e", "g", "o" >>,
    << "i", "b", "o", "v", "e", "s", "p", "a" >>,
    << "p", "r", "o", "d", "u", "c", "a", "o", "-", "i", "n", "d", "u", "s",
       "t", "r", "i", "a", "l" >>,
    << "v", "e", "n", "d", "a", "s", "-", "n", "o", "-", "v", "a", "r", "e",
       "j", "o" >>,
    << "c", "o", "n", "f", "i", "a", "n", "c", "a", "-", "d", "o", "-", "c",
       "o", "n", "s", "u", "m", "i", "d", "o", "r" >> }

\* The periods a series is asked for.
RequestedPeriods == 12

\* What the provider of a series may answer: a failure, or so many periods.
ProviderAnswers ==
  {[kind |-> "fail", periods |-> 0]}
    \cup {[kind |-> "data", periods |-> n] : n \in 0..MaxAvailable}

Min(a, b) == IF a < b THEN a ELSE b

\* The series holding every period the provider has.
get_historico_all_periods(slug, answer) ==
  IF slug \notin INDICADORES_COM_HISTORICO \/ answer.kind # "data" \/ answer.periods = 0
    THEN NoSeries
    ELSE [absent |-> FALSE,
          labels |-> [i \in 1..answer.periods |-> i],
          valores |-> [i \in 1..answer.periods |-> i],
          total_periodos |-> answer.periods]

\* APIServices.get_historico_indicador: the last RequestedPeriods periods of the
\* series of an eligible slug, a label and a value for each; no series for any
\* other slug, for a provider that fails and for a provider without data.
get_historico_indicador(slug, answer) ==
  IF slug \notin INDICADORES_COM_HISTORICO \/ answer.kind # "data" \/ answer.periods = 0
    THEN NoSeries
    ELSE LET k == Min(RequestedPeriods, answer.periods)
             first == answer.periods - k
         IN [absent |-> FALSE,
             labels |-> [i \in 1..k |-> first + i],
             valores |-> [i \in 1..k |-> first + i],
             total_periodos |-> k]

\* tem_historico with every slug eligible.
tem_historico_sempre(slug) == TRUE

\* tem_historico = slug in INDICADORES_COM_HISTORICO
tem_historico(slug) == slug \in INDICADORES_COM_HISTORICO

\* detalhe_indicador has found indicador: the slug of its name is the slug of the
\* request. "historico = None; if tem_historico: try: async with APIServices()
\* ...: historico = await api_service.get_historico_indicador(slug); except
\* Exception: historico = None". raises: an exception leaves the try body.
detalhe_historico(slug, answer, raises) ==
  IF tem_historico(slug)
    THEN [called |-> TRUE, escaped |-> FALSE,
          value |-> IF raises THEN NoSeries ELSE get_historico_indicador(slug, answer)]
    ELSE [called |-> FALSE, escaped |-> FALSE, value |-> NoSeries]

\* GET /indicador/{slug} has found the indicator named nome.
HistRequest(nome, answer, raises) ==
  /\ historico.stage = "none"
  /\ historico' = [NoHistorico EXCEPT !.stage = "pending", !.nome = nome,
                                      !.slug = get_indicador_slug(Chars(nome)),
                                      !.answer = answer, !.raises = raises]

\* The historical part of the handler runs.
HistCall ==
  /\ historico.stage = "pending"
  /\ LET r == detalhe_historico(historico.slug, historico.answer, historico.raises) IN
       historico' = [historico EXCEPT !.stage = "done", !.called = r.called,
                                      !.escaped = r.escaped, !.value = r.value]

\* The page has been rendered.
HistReturn ==
  /\ historico.stage = "done"
  /\ historico' = NoHistorico

restOfHist == <<cacheVars, aggVars, seqVars, fetchVars, authVars, lookupVars, shared,
                trackVars>>

HistRequested ==
  \E i \in Fetchers, answer \in ProviderAnswers, raises \in BOOLEAN :
    HistRequest(FetcherNome[i], answer, raises) /\ UNCHANGED restOfHist
HistCalled == HistCall /\ UNCHANGED restOfHist
HistReturned == HistReturn /\ UNCHANGED restOfHist

NextHist ==
  \/ HistRequested
  \/ HistCalled
  \/ HistReturned

SpecHist == Init /\ [][NextHist]_vars

(***************************************************************************)
(* The pages: one client requesting pages one at a time while force_update *)
(* refreshes run. get_cached_indicators returns a list object: the list    *)
(* the refresh of this request built (which update_indicators_from_apis    *)
(* has assigned to cache_data), cache_data itself, or a list built from    *)
(* the rows of the store. shared tells whether the list the client's       *)
(* request holds is the object cache_data refers to: a later commit of     *)
(* another refresh makes cache_data refer to a new list.                   *)
(***************************************************************************)
\* ind['slug'] = get_indicador_slug(ind['nome'])
AddSlug(ind) ==
  [f \in DOMAIN ind \cup {"slug"} |->
     IF f = "slug" THEN get_indicador_slug(Chars(ind.nome)) ELSE ind[f]]

\* GET /: get_cached_indicators has returned or raised; the loop writes the key
\* 'slug' into every dict of the list it got, then the page is rendered.
home(t) ==
  /\ pc[t] = "done"
  /\ pc' = [pc EXCEPT ![t] = "idle"]
  /\ kind' = [kind EXCEPT ![t] = "none"]
  /\ ret' = [ret EXCEPT ![t] = NoReturn]
  /\ cache_data' = IF ret[t].returned /\ shared
                     THEN [i \in 1..Len(cache_data) |-> AddSlug(cache_data[i])]
                     ELSE cache_data
  /\ shared' = FALSE
  /\ UNCHANGED <<now, nticks, cache_timestamp, db, started, indicators>>

restOfPages == <<aggVars, seqVars, fetchVars, authVars, lookupVars, historico, trackVars>>

PageClock == \E d \in TickSteps : Tick(d) /\ UNCHANGED <<restOfPages, shared>>
RefreshRequested == ForceStart(Refresher) /\ UNCHANGED <<restOfPages, shared>>
RefreshFetched ==
  \E s \in Scenarios, raised \in BOOLEAN :
    FetchDone(Refresher, s, raised) /\ UNCHANGED <<restOfPages, shared>>
RefreshDeleted ==
  \E ok \in BOOLEAN : DeleteDone(Refresher, ok) /\ UNCHANGED <<restOfPages, shared>>
RefreshCommitted ==
  \E ok \in BOOLEAN :
    /\ CommitDone(Refresher, ok)
    /\ shared' = (shared /\ ~ok)
    /\ UNCHANGED restOfPages
RefreshEnded == UpdateReturn(Refresher) /\ UNCHANGED <<restOfPages, shared>>
PageRead ==
  /\ ReadStart(Client)
  /\ shared' = (pc'[Client] = "done")
  /\ UNCHANGED restOfPages
PageFetched ==
  \E s \in Scenarios, raised \in BOOLEAN :
    FetchDone(Client, s, raised) /\ UNCHANGED <<restOfPages, shared>>
PageDeleted ==
  \E ok \in BOOLEAN : DeleteDone(Client, ok) /\ UNCHANGED <<restOfPages, shared>>
PageCommitted ==
  \E ok \in BOOLEAN :
    /\ CommitDone(Client, ok)
    /\ shared' = ok
    /\ UNCHANGED restOfPages
PageResumed ==
  /\ UpdateReturn(Client)
  /\ shared' = /\ pc'[Client] = "done"
               /\ indicators[Client] # << >> => shared
  /\ UNCHANGED restOfPages
PageSelected ==
  \E ok \in BOOLEAN :
    /\ SelectDone(Client, ok)
    /\ shared' = FALSE
    /\ UNCHANGED restOfPages
\* GET /
HomeRendered == home(Client) /\ UNCHANGED restOfPages
\* GET /api/indicadores, GET /api/indicadores/{nome}, GET /indicador/{slug}
PageReleased ==
  /\ Release(Client)
  /\ shared' = FALSE
  /\ UNCHANGED restOfPages

NextPages ==
  \/ PageClock
  \/ RefreshRequested
  \/ RefreshFetched
  \/ RefreshDeleted
  \/ RefreshCommitted
  \/ RefreshEnded
  \/ PageRead
  \/ PageFetched
  \/ PageDeleted
  \/ PageCommitted
  \/ PageResumed
  \/ PageSelected
  \/ HomeRendered
  \/ PageReleased

SpecPages == Init /\ [][NextPages]_vars

(***************************************************************************)
(* The exits of the two "async with" blocks of update_indicators_from_apis *)
(* await session.close() of the store session and of the HTTP session, on  *)
(* the way out of "return indicators" too, inside the try block.           *)
(***************************************************************************)
\* One of the two close() raises after "return indicators" was reached: "except
\* Exception: return []" replaces the value on its way out. cache_data and
\* cache_timestamp have been assigned by then.
CloseFailed(t) ==
  /\ pc[t] = "closing"
  /\ indicators[t] # << >>
  /\ indicators' = [indicators EXCEPT ![t] = << >>]
  /\ UNCHANGED <<now, nticks, cache_data, cache_timestamp, db, started, kind, pc, ret>>

(***************************************************************************)
(* One coroutine at a time: reads and force_update refreshes, each started *)
(* after the one before has ended. before holds cache_data and             *)
(* cache_timestamp as they were when the refresh in progress started.      *)
(***************************************************************************)
Starting(t) == pc[t] # "fetch" /\ pc'[t] = "fetch"
Ending(t) == pc[t] = "closing" /\ pc'[t] # "closing"
Installing(t) == pc[t] = "commit" /\ pc'[t] = "closing" /\ indicators'[t] # << >>

Remember ==
  before' = IF Starting(Client) THEN << cache_data, cache_timestamp >> ELSE before

restOfSolo == <<aggVars, seqVars, fetchVars, authVars, lookupVars, pageVars, agg_order, older>>

SoloClock == \E d \in TickSteps : Tick(d) /\ Remember /\ UNCHANGED restOfSolo
SoloRead == ReadStart(Client) /\ Remember /\ UNCHANGED restOfSolo
SoloForced == ForceStart(Client) /\ Remember /\ UNCHANGED restOfSolo
SoloFetched ==
  \E s \in Scenarios, raised \in BOOLEAN :
    FetchDone(Client, s, raised) /\ Remember /\ UNCHANGED restOfSolo
SoloDeleted == \E ok \in BOOLEAN : DeleteDone(Client, ok) /\ Remember /\ UNCHANGED restOfSolo
SoloCommitted == \E ok \in BOOLEAN : CommitDone(Client, ok) /\ Remember /\ UNCHANGED restOfSolo
SoloCloseFailed == CloseFailed(Client) /\ Remember /\ UNCHANGED restOfSolo
SoloResumed == UpdateReturn(Client) /\ Remember /\ UNCHANGED restOfSolo
SoloSelected == \E ok \in BOOLEAN : SelectDone(Client, ok) /\ Remember /\ UNCHANGED restOfSolo
SoloReleased == Release(Client) /\ Remember /\ UNCHANGED restOfSolo

NextSolo ==
  \/ SoloClock
  \/ SoloRead
  \/ SoloForced
  \/ SoloFetched
  \/ SoloDeleted
  \/ SoloCommitted
  \/ SoloCloseFailed
  \/ SoloResumed
  \/ SoloSelected
  \/ SoloReleased

SpecSolo == Init /\ [][NextSolo]_vars

(***************************************************************************)
(* Refreshes racing: the reads of one client and the background tasks of   *)
(* force_update, interleaved at every await, the close() calls included.   *)
(* agg_order lists the refreshes in flight in the order in which their     *)
(* get_all_indicators calls started; older holds those that started theirs *)
(* before the refresh that installed the cached list started its own.      *)
(***************************************************************************)
Position(t) == CHOOSE k \in 1..Len(agg_order) : agg_order[k] = t

Track ==
  LET starters == {t \in Tasks : Starting(t)}
      enders == {t \in Tasks : Ending(t)}
      installers == {t \in Tasks : Installing(t)}
  IN /\ agg_order' =
          IF starters # {}
            THEN Append(agg_order, CHOOSE t \in starters : TRUE)
            ELSE SelectSeq(agg_order, LAMBDA t : t \notin enders)
     /\ older' =
          IF installers # {}
            THEN LET u == CHOOSE t \in installers : TRUE
                 IN {agg_order[k] : k \in 1..(Position(u) - 1)}
            ELSE older \ enders

restOfRace == <<aggVars, seqVars, fetchVars, authVars, lookupVars, pageVars, before>>

RaceClock == \E d \in TickSteps : Tick(d) /\ Track /\ UNCHANGED restOfRace
RaceRead == ReadStart(Client) /\ Track /\ UNCHANGED restOfRace
RaceForced == ForceStart(Refresher) /\ Track /\ UNCHANGED restOfRace
RaceFetched ==
  \E t \in {Client, Refresher}, s \in Scenarios, raised \in BOOLEAN :
    FetchDone(t, s, raised) /\ Track /\ UNCHANGED restOfRace
RaceDeleted ==
  \E t \in {Client, Refresher}, ok \in BOOLEAN :
    DeleteDone(t, ok) /\ Track /\ UNCHANGED restOfRace
RaceCommitted ==
  \E t \in {Client, Refresher}, ok \in BOOLEAN :
    CommitDone(t, ok) /\ Track /\ UNCHANGED restOfRace
RaceCloseFailed ==
  \E t \in {Client, Refresher} : CloseFailed(t) /\ Track /\ UNCHANGED restOfRace
RaceResumed ==
  \E t \in {Client, Refresher} : UpdateReturn(t) /\ Track /\ UNCHANGED restOfRace
RaceSelected == \E ok \in BOOLEAN : SelectDone(Client, ok) /\ Track /\ UNCHANGED restOfRace
RaceReleased == Release(Client) /\ Track /\ UNCHANGED restOfRace

NextRace ==
  \/ RaceClock
  \/ RaceRead
  \/ RaceForced
  \/ RaceFetched
  \/ RaceDeleted
  \/ RaceCommitted
  \/ RaceCloseFailed
  \/ RaceResumed
  \/ RaceSelected
  \/ RaceReleased

SpecRace == Init /\ [][NextRace]_vars

(***************************************************************************)
(* The claims.                                                             *)
(***************************************************************************)
NormalReturn == agg_return.returned /\ ~agg_return.raised
Failing == {i \in Slots : results[i] # "ok"}

\* C1: whatever subset of the fetchers fails (by a failure record or by raising),
\* the list get_all_indicators returns from its loop has exactly one record per
\* configured fetcher.
C1_ExactlyNRecords ==
  NormalReturn => Len(agg_return.value) = NumFetchers

\* C1 witness: a call has returned after every fetcher failed, some by raising.
C1_Witness ==
  /\ NormalReturn
  /\ Failing = Slots
  /\ \E i \in Slots : results[i] = "exc"
  /\ Len(agg_return.value) = NumFetchers

\* C2: for every completion order and every set of failing fetchers, slot i of
\* the returned list is the record of the i-th declared fetcher: validated iff
\* fetcher i succeeded, otherwise not validated with a non-empty description;
\* with k failing fetchers there are N-k validated and k not validated records.
C2_DeclarationOrder ==
  NormalReturn =>
    /\ \A i \in Slots :
         LET r == agg_return.value[i] IN
           /\ r.validado = (results[i] = "ok")
           /\ r.nome = IF results[i] = "exc" THEN PlaceholderNome[i] ELSE FetcherNome[i]
           /\ ~r.validado => r.descricao # ""
    /\ Cardinality({i \in Slots : agg_return.value[i].validado})
         = NumFetchers - Cardinality(Failing)
    /\ Cardinality({i \in Slots : ~agg_return.value[i].validado})
         = Cardinality(Failing)

\* C2 witness: a call has returned whose last declared fetcher settled first and
\* whose fetchers ended in all three ways.
C2_Witness ==
  /\ NormalReturn
  /\ completion[1] = NumFetchers
  /\ results[1] = "fail"
  /\ results[NumFetchers] = "ok"
  /\ \E i \in Slots : results[i] = "exc"

\* C3: concurrent get_cached_indicators calls that each saw a missing or stale
\* cache share one execution of the aggregation: never two read calls awaiting
\* get_all_indicators at once.
C3_SingleFlight ==
  Cardinality({t \in Tasks : kind[t] = "read" /\ pc[t] = "fetch"}) <= 1

\* C4: whatever triggers them, at most one execution of
\* update_indicators_from_apis is between its start and its cache update or
\* return.
C4_OneRefreshAtATime ==
  Cardinality({t \in Tasks : InUpdate(t)}) <= 1

\* C5: once a refresh holds a non-empty aggregation result, the end of its store
\* write, failed or not, installs that result as cache_data with the current time
\* as cache_timestamp, and the refresh returns the result.
C5_CacheUpdatedDespiteStore ==
  [][\A t \in Tasks :
       (pc[t] \in {"delete", "commit"} /\ pc'[t] = "closing") =>
         /\ cache_data' = indicators[t]
         /\ cache_timestamp' = now
         /\ indicators'[t] = indicators[t]]_vars

EveryFetcherFailed(list) ==
  /\ list # << >>
  /\ \A i \in 1..Len(list) : ~list[i].validado

\* C6: a refresh in which every fetcher failed reaches the cache as an empty
\* result: no refresh holds, and the cache never receives, a list made only of
\* failed records.
C6_AllFailedIsEmpty ==
  /\ \A t \in Tasks : ~EveryFetcherFailed(indicators[t])
  /\ ~EveryFetcherFailed(cache_data)

\* Two completed calls of the client made within the TTL window: the second
\* started at most CACHE_DURATION seconds after the first started and after the
\* snapshot the first saw, if any, was installed.
WithinTTLWindow(a, b) ==
  /\ b.start - a.start <= CACHE_DURATION
  /\ a.seen # NoTimestamp => b.start - a.seen <= CACHE_DURATION

C8_StaleReadAggregatesOnce ==
  \A k \in 1..Len(calls) :
    calls[k].seen # NoTimestamp =>
      calls[k].nagg = IF calls[k].start - calls[k].seen > CACHE_DURATION THEN 1 ELSE 0

\* C9: a read whose refresh yielded nothing while no snapshot exists goes to the
\* store; what it returns is the rows of the store, each as nome, valor and
\* descricao; it leaves cache_data and cache_timestamp as they were, so that the
\* next read calls the aggregation again.
C9_StoreServedNotCached ==
  /\ [][/\ (/\ pc[Client] = "closing"
            /\ kind[Client] = "read"
            /\ indicators[Client] = << >>
            /\ cache_data = << >>
            /\ pc'[Client] # pc[Client]) =>
             /\ pc'[Client] = "select"
             /\ cache_data' = cache_data
             /\ cache_timestamp' = cache_timestamp
        /\ (pc[Client] = "select" /\ pc'[Client] = "done" /\ ret'[Client].returned) =>
             /\ Len(ret'[Client].value) = Len(db)
             /\ \A i \in 1..Len(db) :
                  ret'[Client].value[i] =
                    [nome |-> db[i].nome, valor |-> db[i].valor,
                     descricao |-> db[i].descricao]
             /\ cache_data' = cache_data
             /\ cache_timestamp' = cache_timestamp]_vars
  /\ [](\A k \in 1..Len(calls) :
          calls[k].via = "select" =>
            /\ calls[k].after = NoTimestamp
            /\ k < Len(calls) => calls[k + 1].nagg = 1)

\* C9 witness: two reads in a row have been served the seeded rows of the store,
\* the second after one more aggregation attempt, and the cache is still empty.
C9_Witness ==
  /\ Len(calls) = 2
  /\ calls[1].via = "select"
  /\ calls[2].via = "select"
  /\ calls[2].nagg = 1
  /\ pc[Client] = "done"
  /\ ret[Client].returned
  /\ Len(ret[Client].value) = Len(SeedRows)
  /\ ret[Client].value[1] = [nome |-> "PIB", valor |-> "R$ 8,7 trilhoes",
                            descricao |-> "Crescimento de 1,2% no ultimo trimestre"]
  /\ cache_data = << >>
  /\ cache_timestamp = NoTimestamp

\* C10: get_cached_indicators never raises: every call ends by returning a list.
C10_ReadNeverRaises ==
  \A t \in Tasks : ~ret[t].raised

Selic == 1
Ibovespa == 9

C12_OutOfRangeValueKept ==
  \A k \in 1..Len(fetch_log) :
    LET e == fetch_log[k] IN
      (e.kind = "value" /\ ~(e.value \in Hundredths(FetcherMin[e.fetcher])
                                          ..Hundredths(FetcherMax[e.fetcher]))) =>
        /\ e.record.valor # "N/D"
        /\ ~e.record.validado
        /\ e.record.descricao # ""

\* C13: no fetcher raises; for every failure kind the record has validado false
\* and valor "N/D", and its descricao states the failure class: two failures of
\* different classes have different descriptions.
C13_FailureClassInDescription ==
  /\ \A k \in 1..Len(fetch_log) :
       LET e == fetch_log[k] IN
         e.kind \in FailureKinds =>
           /\ ~e.raised
           /\ ~e.record.validado
           /\ e.record.valor = "N/D"
           /\ e.record.descricao # ""
  /\ (/\ Len(fetch_log) = 2
      /\ fetch_log[1].kind \in FailureKinds
      /\ fetch_log[2].kind \in FailureKinds
      /\ fetch_log[1].kind # fetch_log[2].kind) =>
       fetch_log[1].record.descricao # fetch_log[2].record.descricao

\* The token is in the dict and its entry has not expired at time n.
LiveAt(sessions, token, n) ==
  token \in DOMAIN sessions /\ n <= sessions[token].expires_at

\* C14: a token issued by create_session is in active_sessions from then on and
\* leaves it only by delete_session or by the validation that finds it expired;
\* validate_session is true for it while now <= expires_at; with now > expires_at
\* it is false and removes the entry, and only that entry.
C14_SessionValidUntilExpiry ==
  [][/\ (resp'.op = "login" /\ resp'.value) => resp'.token \in DOMAIN active_sessions'
     /\ resp'.op = "validate" =>
          IF resp'.token \in DOMAIN active_sessions
            THEN IF now <= active_sessions[resp'.token].expires_at
                   THEN resp'.value /\ active_sessions' = active_sessions
                   ELSE /\ ~resp'.value
                        /\ DOMAIN active_sessions' = DOMAIN active_sessions \ {resp'.token}
                        /\ \A t \in DOMAIN active_sessions' :
                             active_sessions'[t] = active_sessions[t]
            ELSE ~resp'.value /\ active_sessions' = active_sessions
     /\ \A t \in DOMAIN active_sessions \ DOMAIN active_sessions' :
          \/ resp'.op = "logout" /\ resp'.token = t
          \/ /\ resp'.op = "validate"
             /\ resp'.token = t
             /\ now > active_sessions[t].expires_at]_vars

\* C14 witness: a session is validated at the very second of its expires_at and
\* found valid.
C14_Witness ==
  /\ resp.op = "validate"
  /\ resp.value
  /\ resp.token \in DOMAIN active_sessions
  /\ active_sessions[resp.token].expires_at = now

\* C15: a token given to delete_session is not in active_sessions and fails
\* validate_session from then on, until the same token is issued again;
\* delete_session removes that token's entry and no other, and changes nothing
\* when the token is absent.
C15_DeletedStaysInvalid ==
  /\ [](revoked \cap DOMAIN active_sessions = {})
  /\ [][/\ (resp'.op = "validate" /\ resp'.token \in revoked) => ~resp'.value
        /\ resp'.op = "logout" =>
             /\ DOMAIN active_sessions' = DOMAIN active_sessions \ {resp'.token}
             /\ \A t \in DOMAIN active_sessions' :
                  active_sessions'[t] = active_sessions[t]]_vars

\* C15 witness: before any session could expire, a deleted token has just failed
\* validation while another session is still there.
C15_Witness ==
  /\ resp.op = "validate"
  /\ resp.token \in revoked
  /\ ~resp.value
  /\ now < SessionSeconds
  /\ DOMAIN active_sessions # {}

\* C16: clean_expired_sessions removes exactly the entries with expires_at < now
\* and leaves the others as they are; called at any moment between logins,
\* logouts and validations, it never lets validate_session return true for a
\* token that is absent or expired.
C16_SweepRemovesExactlyExpired ==
  [][/\ resp'.op = "clean" =>
          /\ DOMAIN active_sessions' =
               {t \in DOMAIN active_sessions : ~(active_sessions[t].expires_at < now)}
          /\ \A t \in DOMAIN active_sessions' :
               active_sessions'[t] = active_sessions[t]
     /\ (resp'.op = "validate" /\ resp'.value) =>
          LiveAt(active_sessions, resp'.token, now)]_vars

\* C16 witness: a sweep has removed an entry and kept one whose expires_at is
\* the current second.
C16_Witness ==
  /\ resp.op = "clean"
  /\ resp.value
  /\ \E t \in DOMAIN active_sessions : active_sessions[t].expires_at = now

\* C17: analises_economistas changes only in a salvar_analise whose cookie is a
\* live session at that moment; a save with an absent, unknown, deleted or
\* expired token leaves it unchanged and redirects to /admin/login.
C17_SaveNeedsValidSession ==
  [][/\ analises_economistas' # analises_economistas =>
          /\ resp'.op = "save"
          /\ LiveAt(active_sessions, resp'.token, now)
     /\ (resp'.op = "save" /\ ~LiveAt(active_sessions, resp'.token, now)) =>
          /\ analises_economistas' = analises_economistas
          /\ resp'.redirect = "/admin/login"]_vars

\* C17 witness: an analysis was saved with a session at the very second of its
\* expires_at, after another token was deleted.
C17_Witness ==
  /\ resp.op = "save"
  /\ resp.value
  /\ resp.slug \in DOMAIN analises_economistas
  /\ active_sessions[resp.token].expires_at = now
  /\ revoked # {}

\* C18: a login with a password other than ADMIN_PASSWORD stores no session,
\* issues no token and redirects to the login page with the error flag; an
\* entry of active_sessions is stored or replaced only by a login with
\* ADMIN_PASSWORD, under the token that login issued.
C18_SessionOnlyForMatchingSecret ==
  [][/\ (resp'.op = "login" /\ resp'.password # ADMIN_PASSWORD) =>
          /\ active_sessions' = active_sessions
          /\ resp'.token = NoToken
          /\ ~resp'.value
          /\ resp'.redirect = "/admin/login?error=senha_invalida"
     /\ \A t \in DOMAIN active_sessions' :
          (t \notin DOMAIN active_sessions \/ active_sessions'[t] # active_sessions[t]) =>
            /\ resp'.op = "login"
            /\ resp'.password = ADMIN_PASSWORD
            /\ resp'.token = t]_vars

\* C18 witness: a login with a password that differs from ADMIN_PASSWORD in case
\* only was turned away while a session exists.
C18_Witness ==
  /\ resp.op = "login"
  /\ resp.password = "Economista2025"
  /\ ~resp.value
  /\ DOMAIN active_sessions # {}

\* C19: force_update returns its acknowledgement with the refresh it scheduled
\* still ahead, and that refresh awaits the aggregation whatever the age of the
\* cache; from there a refresh does the same whether force_update or a read
\* started it: an empty result leaves cache_data, cache_timestamp and the store
\* as they were; a result whose store write commits becomes the rows of the
\* store and the cached list, with the current time as cache_timestamp.
C19_ForceRefreshBypassesTTL ==
  [][/\ (resp # Acknowledgement /\ resp' = Acknowledgement) =>
          /\ kind'[Refresher] = "force"
          /\ pc'[Refresher] = "fetch"
          /\ UNCHANGED <<cache_data, cache_timestamp, db>>
     /\ \A t \in {Client, Refresher} :
          /\ (kind[t] \in {"read", "force"} /\ pc[t] = "fetch" /\ pc'[t] # "fetch") =>
               /\ pc'[t] = IF indicators'[t] = << >> THEN "closing" ELSE "delete"
               /\ UNCHANGED <<cache_data, cache_timestamp, db>>
          /\ (/\ kind[t] \in {"read", "force"}
              /\ pc[t] = "commit"
              /\ pc'[t] = "closing"
              /\ indicators'[t] # << >>) =>
               /\ cache_data' = indicators[t]
               /\ cache_timestamp' = now
               /\ Len(db') = Len(indicators[t])
               /\ \A i \in 1..Len(db') :
                    /\ db'[i].id = i
                    /\ db'[i].nome = indicators[t][i].nome
                    /\ db'[i].valor = indicators[t][i].valor
                    /\ db'[i].descricao = indicators[t][i].descricao
          /\ (kind[t] \in {"read", "force"} /\ pc[t] = "closing" /\ pc'[t] # "closing") =>
               UNCHANGED <<cache_data, cache_timestamp, db>>]_vars

\* C19 witness: force_update has been acknowledged and its refresh awaits the
\* aggregation while the cached list is younger than CACHE_DURATION.
C19_Witness ==
  /\ resp = Acknowledgement
  /\ kind[Refresher] = "force"
  /\ pc[Refresher] = "fetch"
  /\ cache_timestamp # NoTimestamp
  /\ cache_data # << >>
  /\ now - cache_timestamp < CACHE_DURATION

\* A name with its letters lower-cased and its spaces and hyphens removed.
RECURSIVE Folded(_)
Folded(cs) ==
  IF cs = << >>
    THEN << >>
    ELSE IF Head(cs) \in {" ", "-"}
      THEN Folded(Tail(cs))
      ELSE lower(<<Head(cs)>>) \o Folded(Tail(cs))

Inside(part, whole) ==
  \E i \in 1..(Len(whole) + 1), j \in 0..Len(whole) : SubSeq(whole, i, j) = part

SelicSpellings ==
  { << "T", "a", "x", "a", " ", "S", "e", "l", "i", "c" >>,
    << "t", "a", "x", "a", "s", "e", "l", "i", "c" >>,
    << "T", "A", "X", "A", "-", "S", "E", "L", "I", "C" >> }

\* C20: the lookup answers with the first record, in the order of the list, whose
\* name, lower-cased and without spaces and hyphens, equals or contains the
\* query treated the same way, and with 404 when there is none; "Taxa Selic",
\* "taxaselic" and "TAXA-SELIC" all find the record named "Taxa Selic".
C20_NormalizedFirstMatch ==
  lookup.stage = "done" =>
    LET list == lookup.indicators
        hit(i) == \/ Folded(Chars(list[i].nome)) = Folded(lookup.nome)
                  \/ Inside(Folded(lookup.nome), Folded(Chars(list[i].nome)))
        selic == {i \in 1..Len(list) : list[i].nome = "Taxa Selic"}
    IN /\ lookup.status \in {200, 404}
       /\ lookup.status = 200 =>
            /\ lookup.position \in 1..Len(list)
            /\ hit(lookup.position)
            /\ \A j \in 1..(lookup.position - 1) : ~hit(j)
       /\ lookup.status = 404 => \A i \in 1..Len(list) : ~hit(i)
       /\ (lookup.nome \in SelicSpellings /\ selic # {}) =>
            /\ lookup.status = 200
            /\ lookup.position \in selic

\* C20 witness: "TAXA-SELIC" asked of the rows of the seeded store found the
\* third row, "Taxa Selic".
C20_Witness ==
  /\ lookup.stage = "done"
  /\ lookup.nome = << "T", "A", "X", "A", "-", "S", "E", "L", "I", "C" >>
  /\ lookup.indicators = SelectAll(SeedRows)
  /\ lookup.status = 200
  /\ lookup.position = 3
  /\ lookup.indicators[3].nome = "Taxa Selic"

Eligible == historico.slug \in INDICADORES_COM_HISTORICO
HasData == historico.answer.kind = "data" /\ historico.answer.periods > 0

C22_AbsentNeverRaises ==
  historico.stage = "done" =>
    /\ ~historico.escaped
    /\ ~Eligible => (historico.value.absent /\ ~historico.called)
    /\ (Eligible /\ historico.raises) => historico.value.absent

\* C22 witness: both cases have happened: a slug outside the allow-list, or an
\* allow-listed slug whose call raised although the provider held data.
C22_Witness ==
  /\ historico.stage = "done"
  /\ historico.value.absent
  /\ \/ ~Eligible /\ ~historico.called /\ HasData
     \/ Eligible /\ historico.raises /\ HasData /\ historico.called

Status == get_status(now, cache_data, cache_timestamp)

\* C23: in every reachable state the status operation reports the item count of
\* the cached snapshot and a staleness flag that is true exactly when there is no
\* snapshot or its age exceeds CACHE_DURATION, which is exactly when a read would
\* refresh; a snapshot installed less than a second ago is reported as not stale.
C23_StatusStaleness ==
  /\ Status.indicators_cached = Len(cache_data)
  /\ Status.cache_expired <=>
       (cache_timestamp = NoTimestamp \/ now - cache_timestamp > CACHE_DURATION)
  /\ Status.cache_expired <=> CacheExpired(now, cache_timestamp)
  /\ (cache_timestamp # NoTimestamp /\ now - cache_timestamp < 1) =>
       ~Status.cache_expired

\* C24: with no request at all a background timer refreshes the cache at every
\* fixed interval, after a failed refresh too: once startup_event has returned,
\* whenever a day (an interval no shorter than the timer's) has passed since the
\* last refresh ended, another refresh is under way.
C24_TimerRefreshes ==
  (started /\ now - cur.start >= SecondsPerDay) =>
    \E t \in Tasks : InUpdate(t) \/ pc[t] = "closing"

Committing(t) == pc[t] = "commit" /\ pc'[t] = "closing" /\ indicators'[t] # << >>

\* C25: cache_data and cache_timestamp change only together, in one step: a step
\* that changes either is the commit of a refresh, which installs its list and the
\* time of that step; and cache_timestamp is set iff cache_data is not empty.
C25_SnapshotAndTimestampTogether ==
  [][/\ (cache_data' # cache_data \/ cache_timestamp' # cache_timestamp) =>
          \E t \in Tasks :
            /\ Committing(t)
            /\ cache_data' = indicators[t]
            /\ cache_timestamp' = now
     /\ (cache_timestamp' # NoTimestamp) <=> (cache_data' # << >>)]_vars

\* C30: the handlers that read the snapshot never modify it: the step in which a
\* handler is done with the list get_cached_indicators gave it leaves cache_data
\* as the last successful refresh installed it.
C30_ReadersLeaveSnapshot ==
  [][(pc[Client] = "done" /\ pc'[Client] = "idle") => cache_data' = cache_data]_vars

\* C26: across every interleaving of refreshes that succeed, partially fail or
\* fail, cache_timestamp never decreases, and cache_data, once set, stays set and
\* has exactly one entry per fetcher.
C26_TimestampMonotoneSnapshotFull ==
  [][/\ cache_timestamp' >= cache_timestamp
     /\ cache_data # << >> => cache_data' # << >>
     /\ cache_data' # << >> => Len(cache_data') = NumFetchers]_vars

\* C26 witness: a refresh in which fetchers failed has replaced, at a later time,
\* the list of an earlier refresh, while the page client's own refresh has failed
\* and another one awaits its commit.
C26_Witness ==
  /\ cache_timestamp >= CACHE_DURATION
  /\ Len(cache_data) = NumFetchers
  /\ \E i \in 1..Len(cache_data) : ~cache_data[i].validado
  /\ \E i \in 1..Len(cache_data) : cache_data[i].validado
  /\ pc[Client] = "closing"
  /\ indicators[Client] = << >>
  /\ pc[Refresher] = "commit"

\* C27: the committed write of a refresh is a full replace: the store then holds
\* one row per record of that aggregation result, with ids 1..N by position, and
\* nothing else; no other step of a refresh, a failed one included, changes the
\* store.
C27_FullReplaceOrUntouched ==
  [][/\ \A t \in Tasks :
          Committing(t) =>
            /\ Len(db') = Len(indicators[t])
            /\ \A i \in 1..Len(db') :
                 db'[i] = [id |-> i, nome |-> indicators[t][i].nome,
                           valor |-> indicators[t][i].valor,
                           descricao |-> indicators[t][i].descricao]
     /\ db' # db => \E t \in Tasks : Committing(t)]_vars

\* C27 witness: the seeded rows have been replaced by the result of a refresh, and
\* a later refresh that failed before its commit has left those rows in place.
C27_Witness ==
  /\ Len(db) = NumFetchers
  /\ \A i \in 1..Len(db) : db[i].id = i /\ db[i].nome = cache_data[i].nome
  /\ cache_timestamp < now
  /\ pc[Refresher] = "closing"
  /\ indicators[Refresher] = << >>

ExpiredEntry(t) == t \in DOMAIN active_sessions /\ now > active_sessions[t].expires_at

\* C28: every session is purged from active_sessions some time after it has
\* expired, also when its token is never presented again.
C28_ExpiredEventuallyPurged ==
  \A t \in Tokens : ExpiredEntry(t) ~> (t \notin DOMAIN active_sessions)

\* C29: every entry create_session has stored expires exactly 8 hours after its
\* created_at, however the clock advances during the call.
C29_ExpiresEightHoursAfterCreation ==
  \A t \in DOMAIN active_sessions :
    active_sessions[t].expires_at = active_sessions[t].created_at + SessionSeconds

\* C31: a refresh that fails, because the aggregation returned an empty list or
\* because an exception was raised inside update_indicators_from_apis, returns an
\* empty list and leaves cache_data and cache_timestamp as they were when it
\* started.
C31_FailedRefreshLeavesCache ==
  [][(Ending(Client) /\ indicators[Client] = << >>) =>
       << cache_data, cache_timestamp >> = before]_vars

\* C32: under concurrent refreshes the cached list is never replaced by older
\* data: a refresh whose aggregation started before the aggregation that produced
\* the cached list never assigns cache_data.
C32_NoOlderOverwrite ==
  [][\A t \in Tasks : Installing(t) => t \notin older]_vars

NoRefreshInProgress == \A t \in Tasks : pc[t] \notin {"fetch", "delete", "commit", "closing"}

SameRecords(rows, list) ==
  /\ Len(rows) = Len(list)
  /\ \A i \in 1..Len(rows) :
       /\ rows[i].nome = list[i].nome
       /\ rows[i].valor = list[i].valor
       /\ rows[i].descricao = list[i].descricao

====
